---- MODULE Spec2Model ----
(***************************************************************************)
(* A model of the command line interface of ontogpt (src/ontogpt/cli.py):  *)
(* the top-level `main` callback that fills the process-wide Settings, the *)
(* extraction commands built on it, and `write_extraction`.                *)
(*                                                                         *)
(* One process runs `main` once and then one subcommand.  Every handler is *)
(* one action; what it did on the way (engine built, text acquired,        *)
(* extraction invoked, output written, exception raised) is kept in state. *)
(*                                                                         *)
(* Python values: a string is a sequence of characters (a path is a string *)
(* of one opaque character), None is the empty tuple and any other value v *)
(* is the one-element tuple <<v>>.                                         *)
(***************************************************************************)
EXTENDS Integers, Sequences, FiniteSets, TLC

VARIABLES pc, settings, cmd, args, run

vars == <<pc, settings, cmd, args, run>>

(***************************************************************************)
(* Bounds of the model.                                                    *)
(***************************************************************************)
\* Longest tuple of --set-slot-value overrides given to `extract`.
MaxOverrides == 2
\* Fetched article texts are up to MaxExcess characters over the cap.
MaxExcess == 2
\* Most results an external search returns.
MaxHits == 2

(***************************************************************************)
(* Python values.                                                          *)
(***************************************************************************)
None == <<>>

Some(v) == <<v>>

\* bool(x) of an optional string or tuple: None and the empty value are falsy.
Truthy(o) == o # None /\ o[1] # <<>>

\* s.split(sep): every occurrence of sep separates two parts.
RECURSIVE split(_, _)
split(s, sep) ==
    IF \E i \in 1..Len(s) : s[i] = sep
    THEN LET i == CHOOSE k \in 1..Len(s) :
                      s[k] = sep /\ \A j \in 1..(k - 1) : s[j] # sep
         IN <<SubSeq(s, 1, i - 1)>> \o split(SubSeq(s, i + 1, Len(s)), sep)
    ELSE <<s>>

\* setattr that rebinds the whole object to the one attribute.
setattr_replacing(obj, slot, value) == [f \in {slot} |-> value]

\* setattr(obj, slot, value) on a plain object: the attribute is (re)bound.
setattr(obj, slot, value) ==
    [f \in (DOMAIN obj) \cup {slot} |-> IF f = slot THEN value ELSE obj[f]]

(***************************************************************************)
(* The environment of one process: the file system and standard input.     *)
(***************************************************************************)
FileSystem ==
    (<<"in.txt">> :> <<"f", "i", "l", "e">>) @@
    (<<"genes.txt">> :> <<"g", "1">>)

\* Path(p).exists()
exists(p) == p \in DOMAIN FileSystem

\* open(p, "r").read()
read(p) == FileSystem[p]

\* sys.stdin.read()
Stdin == <<"s", "t", "d">>

(***************************************************************************)
(* Settings (process-wide) and `main`.                                     *)
(***************************************************************************)
DefaultSettings == [cache_db |-> None, skip_annotators |-> None]

\* main() with both assignments made whatever the options hold.
main_unconditional(s, cache_db, skip_annotator) ==
    [s EXCEPT !.cache_db = cache_db, !.skip_annotators = Some(skip_annotator)]

\* main(): the two fields are written only when the option is non-empty.
main(s, cache_db, skip_annotator) ==
    LET s1 == IF Truthy(cache_db) THEN [s EXCEPT !.cache_db = cache_db] ELSE s
    IN IF skip_annotator # <<>>
       THEN [s1 EXCEPT !.skip_annotators = Some(skip_annotator)]
       ELSE s1

(***************************************************************************)
(* The record of one handler's execution.                                  *)
(*   outcome   "ok", or the exception that ended the handler               *)
(*   events    the stages the handler went through, in order               *)
(*   ke        the engine as last configured (None: never constructed)     *)
(*   text      the text handed to extract_from_text (None: never invoked)  *)
(*   extracted the ExtractionResult as the engine returned it              *)
(*   results   the ExtractionResult handed to the output stage             *)
(*   gene_set  the local gene_set of the gene-set commands, as last bound  *)
(*   summarized the gene set handed to the engine (None: never handed)     *)
(*   sink      what was written to `output`, in order                      *)
(*   printed   what print() wrote to standard output, in order             *)
(***************************************************************************)
NoRun ==
    [outcome |-> "none", events |-> <<>>, ke |-> None, text |-> None,
     extracted |-> None, results |-> None, gene_set |-> None,
     summarized |-> None,
     sink |-> <<>>, printed |-> <<>>]

Running == [NoRun EXCEPT !.outcome = "running"]

Raise(r, exc) == [r EXCEPT !.outcome = exc]

Event(r, e) == [r EXCEPT !.events = Append(@, e)]

Return(r) == IF r.outcome = "running" THEN [r EXCEPT !.outcome = "ok"] ELSE r

Raised(r) == r.outcome \notin {"running", "ok", "none"}

(***************************************************************************)
(* The engines (external collaborators of cli.py).                         *)
(***************************************************************************)
\* What a client holds before cli.py touches it.
EngineDefaultCache == Some(<<"engine-default.db">>)

EngineDefaultSkip == Some(<<"engine-default-skip">>)

\* SPIRESEngine(template, **kwargs) / create_engine(None, EnrichmentEngine).
NewEngine(kind, template) ==
    [kind |-> kind, template |-> template, dictionary |-> None,
     schemaview |-> <<"schemaview", template>>,
     client |-> [cache_db_path |-> EngineDefaultCache,
                 skip_annotators |-> EngineDefaultSkip,
                 interactive |-> FALSE]]

\* ke.extract_from_text(text, cls): the object is the engine's choice.
ExtractionResult(obj) ==
    [extracted_object |-> obj, prompt |-> Some(<<"p">>), truncation_factor |-> None]

\* The objects an extraction may return, and the one the environment picks.
Objects ==
    { (<<"a">> :> <<"x">>) @@ (<<"b">> :> <<"y">>),
      (<<"a">> :> <<"v">>) @@ (<<"b">> :> <<>>) }

(***************************************************************************)
(* write_extraction.                                                       *)
(***************************************************************************)
\* isinstance(f, TextIOWrapper): sys.stdout is one, a file opened "wb" is not.
IsTextIOWrapper(output) == output = "sys.stdout"

\* _as_text_writer(f): the writer that ends up writing to the sink.
as_text_writer(output) == IF IsTextIOWrapper(output) THEN "text" ELSE "utf-8"

\* One write to the sink: which writer wrote, and which rendering of what.
Written(writer, render, results, schemaview) ==
    [writer |-> writer, render |-> render, results |-> results,
     schemaview |-> schemaview]

Write(r, w) == [r EXCEPT !.sink = Append(@, w)]

\* print(what): to standard output.
print(r, what) == [Event(r, "print") EXCEPT !.printed = Append(@, what)]

\* write_extraction with a renderer of its own for "json".
write_extraction_json(r0, results, output, output_format, knowledge_engine) ==
    LET r == Event(r0, "write_extraction")
        tw == as_text_writer(output)
    IN IF output_format = Some("json")
       THEN Write(r, Written(tw, "json", results, None))
       ELSE IF output_format = Some("pickle")
       THEN IF IsTextIOWrapper(output)
            THEN Raise(r, "TypeError")     \* bytes written to a text stream
            ELSE Write(r, Written("bytes", "pickle", results, None))
       ELSE IF output_format = Some("md")
       THEN Write(r, Written(tw, "md", results, None))
       ELSE IF output_format = Some("html")
       THEN Write(r, Written(tw, "html", results, None))
       ELSE IF output_format = Some("yaml")
       THEN Write(r, Written(tw, "yaml", results, None))
       ELSE IF output_format = Some("turtle")
       THEN IF knowledge_engine = None
            THEN Raise(r, "AttributeError")
            ELSE Write(r, Written(tw, "turtle", results,
                                  Some(knowledge_engine[1].schemaview)))
       ELSE IF output_format = Some("owl")
       THEN IF knowledge_engine = None
            THEN Raise(r, "AttributeError")
            ELSE Write(r, Written(tw, "owl", results,
                                  Some(knowledge_engine[1].schemaview)))
       ELSE Write(r, Written(tw, "yaml", results, None))

\* write_extraction whose turtle and owl branches go on without an engine.
write_extraction_no_engine(r0, results, output, output_format, knowledge_engine) ==
    LET r == Event(r0, "write_extraction")
        tw == as_text_writer(output)
        sv == IF knowledge_engine = None THEN None
              ELSE Some(knowledge_engine[1].schemaview)
    IN IF output_format = Some("pickle")
       THEN IF IsTextIOWrapper(output)
            THEN Raise(r, "TypeError")
            ELSE Write(r, Written("bytes", "pickle", results, None))
       ELSE IF output_format = Some("md")
       THEN Write(r, Written(tw, "md", results, None))
       ELSE IF output_format = Some("html")
       THEN Write(r, Written(tw, "html", results, None))
       ELSE IF output_format = Some("turtle")
       THEN Write(r, Written(tw, "turtle", results, sv))
       ELSE IF output_format = Some("owl")
       THEN Write(r, Written(tw, "owl", results, sv))
       ELSE Write(r, Written(tw, "yaml", results, None))

write_extraction(r0, results, output, output_format, knowledge_engine) ==
    LET r == Event(r0, "write_extraction")
        tw == as_text_writer(output)
    IN IF output_format = Some("pickle")
       THEN IF IsTextIOWrapper(output)
            THEN Raise(r, "TypeError")     \* bytes written to a text stream
            ELSE Write(r, Written("bytes", "pickle", results, None))
       ELSE IF output_format = Some("md")
       THEN Write(r, Written(tw, "md", results, None))
       ELSE IF output_format = Some("html")
       THEN Write(r, Written(tw, "html", results, None))
       ELSE IF output_format = Some("yaml")
       THEN Write(r, Written(tw, "yaml", results, None))
       ELSE IF output_format = Some("turtle")
       THEN IF knowledge_engine = None
            THEN Raise(r, "AttributeError")
            ELSE Write(r, Written(tw, "turtle", results,
                                  Some(knowledge_engine[1].schemaview)))
       ELSE IF output_format = Some("owl")
       THEN IF knowledge_engine = None
            THEN Raise(r, "AttributeError")
            ELSE Write(r, Written(tw, "owl", results,
                                  Some(knowledge_engine[1].schemaview)))
       ELSE Write(r, Written(tw, "yaml", results, None))

(***************************************************************************)
(* The arguments of a command, and what its collaborators answer.  A field *)
(* a command does not take stays at its default.                           *)
(*   engine_ok, fetch_ok, extract_ok: whether the engine constructor, the  *)
(*   remote fetch and extract_from_text return (TRUE) or raise (FALSE);    *)
(*   obj: the object the extraction returns; schema_keywords: the keywords *)
(*   of the template's schema; hits: what the external search returns;     *)
(*   id: the pmid, article or page a command is asked to fetch.            *)
(***************************************************************************)
NoArgs ==
    [template |-> <<"T">>, inputfile |-> None, input |-> None,
     dictionary |-> None,
     output |-> "sys.stdout", output_format |-> Some("yaml"),
     set_slot_value |-> <<>>,
     genes |-> <<>>, input_file |-> None, interactive |-> FALSE,
     show_prompt |-> TRUE,
     keyword |-> <<>>, schema_keywords |-> <<>>, hits |-> <<>>,
     id |-> <<"article", 0>>, url |-> <<>>, recipes_urls_file |-> None,
     examples |-> None,
     engine_ok |-> TRUE, fetch_ok |-> TRUE, extract_ok |-> TRUE,
     obj |-> (<<"a">> :> <<"x">>) @@ (<<"b">> :> <<"y">>)]

OutputFormats == {"json", "yaml", "pickle", "md", "html", "owl", "turtle"}

Outputs == {"sys.stdout", "file.wb"}

(***************************************************************************)
(* Steps shared by the extraction commands.                                *)
(***************************************************************************)
\* ke = SPIRESEngine(template, **kwargs)
construct_engine(r, kind, a) ==
    IF a.engine_ok
    THEN [Event(r, "construct_engine") EXCEPT
              !.ke = Some(NewEngine(kind, a.template))]
    ELSE Raise(Event(r, "construct_engine"), "EngineError")

SetCache(r, v) == [r EXCEPT !.ke = Some([@[1] EXCEPT !.client.cache_db_path = v])]

SetSkip(r, v) == [r EXCEPT !.ke = Some([@[1] EXCEPT !.client.skip_annotators = v])]

\* if settings.cache_db: ...; if settings.skip_annotators: ...
apply_settings(r, s) ==
    LET r1 == IF Truthy(s.cache_db) THEN SetCache(r, s.cache_db) ELSE r
    IN IF Truthy(s.skip_annotators) THEN SetSkip(r1, s.skip_annotators) ELSE r1

\* if dictionary: ke.load_dictionary(dictionary)
load_dictionary(r, dictionary) ==
    IF Truthy(dictionary)
    THEN [r EXCEPT !.ke = Some([@[1] EXCEPT !.dictionary = dictionary])]
    ELSE r

\* results = ke.extract_from_text(text, ...)
extract_from_text(r0, text, a) ==
    LET r == [Event(r0, "extract_from_text") EXCEPT !.text = Some(text)]
    IN IF a.extract_ok
       THEN [r EXCEPT !.extracted = Some(ExtractionResult(a.obj)),
                      !.results = Some(ExtractionResult(a.obj))]
       ELSE Raise(r, "ExtractionError")

(***************************************************************************)
(* extract                                                                 *)
(***************************************************************************)
\* select_input with the literal argument tried before the file.
select_input_literal_first(inputfile, input) ==
    IF Truthy(input)
    THEN [kind |-> "literal", exc |-> "", text |-> input[1]]
    ELSE IF Truthy(inputfile) /\ exists(inputfile[1])
    THEN [kind |-> "file", exc |-> "", text |-> read(inputfile[1])]
    ELSE IF Truthy(inputfile) /\ ~exists(inputfile[1])
    THEN [kind |-> "raise", exc |-> "FileNotFoundError", text |-> <<>>]
    ELSE [kind |-> "stdin", exc |-> "", text |-> Stdin]

\* select_input without the branch that raises for a missing file.
select_input_no_raise(inputfile, input) ==
    IF Truthy(inputfile) /\ exists(inputfile[1])
    THEN [kind |-> "file", exc |-> "", text |-> read(inputfile[1])]
    ELSE IF Truthy(input)
    THEN [kind |-> "literal", exc |-> "", text |-> input[1]]
    ELSE [kind |-> "stdin", exc |-> "", text |-> Stdin]

\* The if/elif chain that binds `text`: the text, or the exception raised.
\* ("unbound": no branch was taken and `text` has no value.)
select_input(inputfile, input) ==
    IF Truthy(inputfile) /\ exists(inputfile[1])
    THEN [kind |-> "file", exc |-> "", text |-> read(inputfile[1])]
    ELSE IF Truthy(inputfile) /\ ~exists(inputfile[1])
    THEN [kind |-> "raise", exc |-> "FileNotFoundError", text |-> <<>>]
    ELSE IF Truthy(input)
    THEN [kind |-> "literal", exc |-> "", text |-> input[1]]
    ELSE IF ~Truthy(input) \/ input = Some(<<"-">>)
    THEN [kind |-> "stdin", exc |-> "", text |-> Stdin]
    ELSE [kind |-> "unbound", exc |-> "UnboundLocalError", text |-> <<>>]

\* slot, value = slot_value.split("="); setattr(results.extracted_object, ...)
set_slot(r, slot_value) ==
    LET parts == split(slot_value, "=")
    IN IF Len(parts) # 2
       THEN Raise(r, "ValueError")
       ELSE [r EXCEPT !.results =
                Some([@[1] EXCEPT !.extracted_object =
                         setattr(@, parts[1], parts[2])])]

\* for slot_value in set_slot_value: an exception ends the loop.
RECURSIVE set_slot_values(_, _)
set_slot_values(r, set_slot_value) ==
    IF set_slot_value = <<>> \/ Raised(r)
    THEN r
    ELSE set_slot_values(set_slot(r, Head(set_slot_value)), Tail(set_slot_value))

extract(s, a) ==
    LET r1 == construct_engine(Running, "SPIRESEngine", a)
        r2 == load_dictionary(apply_settings(r1, s), a.dictionary)
        sel == select_input(a.inputfile, a.input)
        r3 == IF sel.kind \in {"raise", "unbound"}
              THEN Raise(Event(r2, "acquire_text"), sel.exc)
              ELSE Event(r2, "acquire_text")
        r4 == extract_from_text(r3, sel.text, a)
        r5 == IF a.set_slot_value # <<>>
              THEN set_slot_values(Event(r4, "set_slot_value"), a.set_slot_value)
              ELSE r4
        r6 == write_extraction(r5, r5.results[1], a.output, a.output_format, r5.ke)
    IN Return(IF Raised(r1) THEN r1
              ELSE IF Raised(r3) THEN r3
              ELSE IF Raised(r4) THEN r4
              ELSE IF Raised(r5) THEN r5
              ELSE r6)

(***************************************************************************)
(* The keyword-search commands: wikipedia_search, search_and_extract.      *)
(***************************************************************************)
\* The cap of wikipedia_search on the text it passes on.
MaxTextLen == 4000

Alphabet == <<"x", "y", "z">>

\* The full text of the article (or abstract) `id`: id[2] characters.
article_text(id) == [i \in 1..id[2] |-> Alphabet[(i % 3) + 1]]

\* client.search_wikipedia_articles(term) / pmc.search(term, keywords)
search(r, a) ==
    IF a.fetch_ok
    THEN Event(r, "search")
    ELSE Raise(Event(r, "search"), "UpstreamError")

\* Lines 296-298 with the slice off by one.
truncate_short(text) ==
    IF Len(text) > MaxTextLen THEN SubSeq(text, 1, MaxTextLen - 1) ELSE text

\* if len(text) > 4000: text = text[:4000]
truncate(text) ==
    IF Len(text) > MaxTextLen THEN SubSeq(text, 1, MaxTextLen) ELSE text

\* The body of `for _index, result in enumerate(search_results, start=1)`,
\* which ends in `break`: it runs for the first result, if there is one.
wikipedia_search_first(r, search_results, a) ==
    IF search_results = <<>>
    THEN r
    ELSE LET title == Head(search_results)
             text == truncate(article_text(title))
             r1 == extract_from_text(Event(r, "fetch_text"), text, a)
             r2 == write_extraction(r1, r1.results[1], a.output,
                                    a.output_format, None)
         IN IF Raised(r1) THEN r1 ELSE r2

wikipedia_search(s, a) ==
    LET r1 == construct_engine(Running, "SPIRESEngine", a)
        keywords == a.keyword \o a.schema_keywords
        r2 == print(r1, Some(<<"Searching for">> \o keywords))
        r3 == search(r2, a)
        r4 == wikipedia_search_first(r3, a.hits, a)
    IN Return(IF Raised(r1) THEN r1
              ELSE IF Raised(r3) THEN r3
              ELSE r4)

search_and_extract(s, a) ==
    LET r1 == construct_engine(Running, "SPIRESEngine", a)
        keywords == a.keyword \o a.schema_keywords
        r2 == IF keywords = <<>> THEN Raise(r1, "ValueError") ELSE r1
        r3 == search(r2, a)
        pmids == a.hits
        r4 == IF pmids = <<>> THEN Raise(r3, "IndexError") ELSE r3   \* pmids[0]
        text == article_text(pmids[1])
        r5 == extract_from_text(Event(r4, "fetch_text"), text, a)
        r6 == write_extraction(r5, r5.results[1], a.output, a.output_format, None)
    IN Return(IF Raised(r1) THEN r1
              ELSE IF Raised(r2) THEN r2
              ELSE IF Raised(r3) THEN r3
              ELSE IF Raised(r4) THEN r4
              ELSE IF Raised(r5) THEN r5
              ELSE r6)

(***************************************************************************)
(* The commands that fetch one document: pubmed_extract,                   *)
(* wikipedia_extract, web_extract.                                         *)
(***************************************************************************)
\* pmc.text(pmid) / client.text(article) / web_client.text(url)
fetch(r, a) ==
    IF a.fetch_ok
    THEN Event(r, "fetch_text")
    ELSE Raise(Event(r, "fetch_text"), "UpstreamError")

\* pubmed_extract with the engine constructed before the text is fetched.
pubmed_extract_engine_first(s, a) ==
    LET r1 == construct_engine(Running, "SPIRESEngine", a)
        r2 == fetch(r1, a)
        text == article_text(a.id)
        r3 == extract_from_text(r2, text, a)
        r4 == write_extraction(r3, r3.results[1], a.output, a.output_format, None)
    IN Return(IF Raised(r1) THEN r1
              ELSE IF Raised(r2) THEN r2
              ELSE IF Raised(r3) THEN r3
              ELSE r4)

pubmed_extract(s, a) ==
    LET r1 == fetch(Running, a)
        text == article_text(a.id)
        r2 == construct_engine(r1, "SPIRESEngine", a)
        r3 == extract_from_text(r2, text, a)
        r4 == write_extraction(r3, r3.results[1], a.output, a.output_format, None)
    IN Return(IF Raised(r1) THEN r1
              ELSE IF Raised(r2) THEN r2
              ELSE IF Raised(r3) THEN r3
              ELSE r4)

wikipedia_extract(s, a) ==
    LET r1 == fetch(Running, a)
        text == article_text(a.id)
        r2 == construct_engine(r1, "SPIRESEngine", a)
        r3 == extract_from_text(r2, text, a)
        r4 == write_extraction(r3, r3.results[1], a.output, a.output_format, r3.ke)
    IN Return(IF Raised(r1) THEN r1
              ELSE IF Raised(r2) THEN r2
              ELSE IF Raised(r3) THEN r3
              ELSE r4)

web_extract(s, a) ==
    LET r1 == fetch(Running, a)
        text == article_text(a.id)
        r2 == print(r1, Some(<<"## Text:">> \o text))
        r3 == construct_engine(r2, "SPIRESEngine", a)
        r4 == extract_from_text(r3, text, a)
        r5 == write_extraction(r4, r4.results[1], a.output, a.output_format, None)
    IN Return(IF Raised(r1) THEN r1
              ELSE IF Raised(r3) THEN r3
              ELSE IF Raised(r4) THEN r4
              ELSE r5)

(***************************************************************************)
(* recipe_extract                                                          *)
(***************************************************************************)
\* The candidates files: f.readlines() of each.
RecipeFiles ==
    <<"urls.txt">> :>
        << <<"u", "1", "\n">>, <<" ", "u", "2", " ", "\n">>, <<"w", "\n">> >>

Whitespace == {" ", "\n", "\t"}

\* url in line
contains(line, url) ==
    \E k \in 0..(Len(line) - Len(url)) :
        \A i \in 1..Len(url) : line[k + i] = url[i]

\* line.strip()
strip(line) ==
    LET keep == {i \in 1..Len(line) : line[i] \notin Whitespace}
    IN IF keep = {} THEN <<>>
       ELSE LET first == CHOOSE i \in keep : \A j \in keep : i <= j
                last == CHOOSE i \in keep : \A j \in keep : j <= i
            IN SubSeq(line, first, last)

\* [line.strip() for line in f.readlines() if url in line]
RECURSIVE matching_urls(_, _)
matching_urls(lines, url) ==
    IF lines = <<>> THEN <<>>
    ELSE (IF contains(Head(lines), url) THEN <<strip(Head(lines))>> ELSE <<>>)
         \o matching_urls(Tail(lines), url)

\* Lines 395-400 without the test of line 398: the first match is taken.
resolve_url_first(url, recipes_urls_file) ==
    IF ~Truthy(recipes_urls_file)
    THEN [exc |-> "", url |-> url]
    ELSE IF recipes_urls_file[1] \notin DOMAIN RecipeFiles
    THEN [exc |-> "FileNotFoundError", url |-> url]
    ELSE LET urls == matching_urls(RecipeFiles[recipes_urls_file[1]], url)
         IN IF urls = <<>>
            THEN [exc |-> "ValueError", url |-> url]
            ELSE [exc |-> "", url |-> urls[1]]

\* Lines 395-400: the URL to scrape, or the exception raised.
resolve_url(url, recipes_urls_file) ==
    IF ~Truthy(recipes_urls_file)
    THEN [exc |-> "", url |-> url]
    ELSE IF recipes_urls_file[1] \notin DOMAIN RecipeFiles
    THEN [exc |-> "FileNotFoundError", url |-> url]
    ELSE LET urls == matching_urls(RecipeFiles[recipes_urls_file[1]], url)
         IN IF Len(urls) # 1
            THEN [exc |-> "ValueError", url |-> url]
            ELSE [exc |-> "", url |-> urls[1]]

\* "\n".join(parts)
RECURSIVE join(_)
join(parts) ==
    IF parts = <<>> THEN <<>>
    ELSE IF Len(parts) = 1 THEN parts[1]
    ELSE parts[1] \o <<"\n">> \o join(Tail(parts))

\* scrape_me(url): the recipe found at the URL.
scrape_me(url) ==
    [title |-> url, ingredients |-> << <<"i", "1">>, <<"i", "2">> >>,
     instructions_list |-> << <<"s", "1">> >>]

recipe_text(scraper) ==
    <<"Recipe: ">> \o scraper.title
    \o <<"Ingredients:", "\n">> \o join(scraper.ingredients)
    \o <<"Instructions:", "\n">> \o join(scraper.instructions_list)

recipe_extract(s, a) ==
    LET res == resolve_url(a.url, a.recipes_urls_file)
        r0 == IF Truthy(a.recipes_urls_file)
              THEN Event(Running, "resolve_url") ELSE Running
        r1 == IF res.exc # "" THEN Raise(r0, res.exc) ELSE r0
        url == res.url
        r2 == IF a.fetch_ok
              THEN Event(r1, "scrape_me")
              ELSE Raise(Event(r1, "scrape_me"), "UpstreamError")
        scraper == scrape_me(url)
        r3 == construct_engine(r2, "SPIRESEngine", [a EXCEPT !.template = <<"recipe">>])
        r4 == load_dictionary(apply_settings(r3, s), a.dictionary)
        text == recipe_text(scraper)
        r5 == extract_from_text(Event(r4, "acquire_text"), text, a)
        r6 == [r5 EXCEPT !.results =
                  Some([@[1] EXCEPT !.extracted_object = setattr(@, <<"url">>, url)])]
        r7 == write_extraction(r6, r6.results[1], a.output, a.output_format, r6.ke)
    IN Return(IF Raised(r1) THEN r1
              ELSE IF Raised(r2) THEN r2
              ELSE IF Raised(r3) THEN r3
              ELSE IF Raised(r5) THEN r5
              ELSE r7)

(***************************************************************************)
(* convert, fill, parse                                                    *)
(***************************************************************************)
convert(s, a) ==
    LET r1 == construct_engine(Running, "SPIRESEngine",
                               [a EXCEPT !.template = <<"recipe">>])
        r2 == IF Truthy(a.inputfile) /\ exists(a.inputfile[1])
              THEN [Event(r1, "yaml.safe_load") EXCEPT
                       !.results = Some([extracted_object |-> a.obj])]
              ELSE Raise(Event(r1, "yaml.safe_load"), "FileNotFoundError")
        r3 == write_extraction(r2, r2.results[1], a.output, a.output_format, r2.ke)
    IN Return(IF Raised(r1) THEN r1
              ELSE IF Raised(r2) THEN r2
              ELSE r3)

fill(s, a) ==
    LET r1 == construct_engine(Running, "SPIRESEngine", a)
        \* yaml.safe_load(examples): examples is None without --examples
        r2 == IF a.examples = None
              THEN Raise(Event(r1, "yaml.safe_load"), "AttributeError")
              ELSE Event(r1, "yaml.safe_load")
        r3 == IF a.extract_ok
              THEN [Event(r2, "generalize") EXCEPT
                       !.results = Some(ExtractionResult(a.obj))]
              ELSE Raise(Event(r2, "generalize"), "ExtractionError")
        \* output.write(yaml.dump(...)): a str, to a sink opened "wb"
        r4 == IF IsTextIOWrapper(a.output)
              THEN Write(Event(r3, "output.write"),
                         Written("text", "yaml.dump", r3.results[1], None))
              ELSE Raise(Event(r3, "output.write"), "TypeError")
    IN Return(IF Raised(r1) THEN r1
              ELSE IF Raised(r2) THEN r2
              ELSE IF Raised(r3) THEN r3
              ELSE r4)

parse(s, a) ==
    LET r1 == construct_engine(Running, "SPIRESEngine", a)
        \* text = input.read(): the --input file, or standard input
        r2 == Event(r1, "acquire_text")
        r3 == IF a.extract_ok
              THEN [Event(r2, "parse_completion_payload") EXCEPT
                       !.results = Some(ExtractionResult(a.obj))]
              ELSE Raise(Event(r2, "parse_completion_payload"), "ExtractionError")
        r4 == print(r3, Some(<<"yaml.dump">>))
    IN Return(IF Raised(r1) THEN r1
              ELSE IF Raised(r3) THEN r3
              ELSE r4)

(***************************************************************************)
(* The gene-set commands: enrichment, eval_enrichment.                     *)
(***************************************************************************)
\* GeneSet(name="TEMP", gene_symbols=genes)
GeneSet(name, gene_symbols) == [name |-> name, gene_symbols |-> gene_symbols]

\* parse_gene_set(input_file): the gene set the file holds.
parse_gene_set(input_file) == GeneSet(input_file, <<read(input_file)>>)

\* Lines 569-578 without the test that raises when both are given: the
\* file's genes are appended to the arguments'.
bind_gene_set_merging(r, genes, input_file) ==
    IF genes = <<>> /\ ~Truthy(input_file)
    THEN Raise(r, "ValueError")
    ELSE IF ~Truthy(input_file)
    THEN [r EXCEPT !.gene_set = Some(GeneSet(<<"TEMP">>, genes))]
    ELSE IF ~exists(input_file[1])
    THEN Raise(r, "FileNotFoundError")
    ELSE [r EXCEPT !.gene_set =
              Some(GeneSet(<<"TEMP">>,
                           genes \o parse_gene_set(input_file[1]).gene_symbols))]

\* Lines 569-578 and 794-803: the statements that bind `gene_set`.
bind_gene_set(r, genes, input_file) ==
    IF genes = <<>> /\ ~Truthy(input_file)
    THEN Raise(r, "ValueError")
    ELSE LET r1 == IF genes # <<>>
                   THEN [r EXCEPT !.gene_set = Some(GeneSet(<<"TEMP">>, genes))]
                   ELSE r
             r2 == IF Truthy(input_file)
                   THEN IF genes # <<>>
                        THEN Raise(r1, "ValueError")
                        ELSE IF ~exists(input_file[1])
                        THEN Raise(Event(r1, "parse_gene_set"), "FileNotFoundError")
                        ELSE [Event(r1, "parse_gene_set") EXCEPT
                                 !.gene_set = Some(parse_gene_set(input_file[1]))]
                   ELSE r1
         IN IF Raised(r2) THEN r2
            ELSE IF r2.gene_set = None     \* `if not gene_set`
            THEN Raise(r2, "ValueError")
            ELSE r2

\* ke.summarize(gene_set, ...)
summarize(r0, gene_set, a) ==
    LET r == [Event(r0, "summarize") EXCEPT !.summarized = Some(gene_set)]
    IN IF a.extract_ok
       THEN [r EXCEPT !.results =
                Some([gene_set |-> gene_set, prompt |-> Some(<<"p">>),
                      truncation_factor |-> None])]
       ELSE Raise(r, "ExtractionError")

enrichment(s, a) ==
    LET r1 == bind_gene_set(Running, a.genes, a.input_file)
        r2 == construct_engine(r1, "EnrichmentEngine", a)
        r3 == IF a.interactive
              THEN [r2 EXCEPT !.ke = Some([@[1] EXCEPT !.client.interactive = TRUE])]
              ELSE r2
        r4 == IF Truthy(s.cache_db) THEN SetCache(r3, s.cache_db) ELSE r3
        \* if not isinstance(ke, EnrichmentEngine)
        r4b == IF r4.ke[1].kind # "EnrichmentEngine" THEN Raise(r4, "ValueError") ELSE r4
        r5 == summarize(r4b, r4b.gene_set[1], a)
        tw == as_text_writer(a.output)
        r6 == IF a.show_prompt THEN print(r5, r5.results[1].prompt) ELSE r5
        r7 == Write(Event(r6, "output.write"),
                    Written(tw, "yaml", r6.results[1], None))
    IN Return(IF Raised(r1) THEN r1
              ELSE IF Raised(r2) THEN r2
              ELSE IF Raised(r4b) THEN r4b
              ELSE IF Raised(r5) THEN r5
              ELSE r7)

EvalModels == << <<"gpt-3.5-turbo">>, <<"text-davinci-003">> >>

\* One turn of `for model in models`.
RECURSIVE eval_models(_, _, _, _)
eval_models(r, models, gene_set, a) ==
    IF models = <<>> \/ Raised(r)
    THEN r
    ELSE LET r1 == construct_engine(r, "EvalEnrichment",
                                    [a EXCEPT !.template = Head(models)])
             r2 == print(Event(r1, "load_annotations"), Some(<<"RANDOM GENE">>))
             r3 == [Event(r2, "evaluate_methods_on_gene_set") EXCEPT
                       !.summarized = Some(gene_set)]
             r4 == IF a.extract_ok
                   THEN [r3 EXCEPT !.results =
                            Some([gene_set |-> gene_set, prompt |-> None,
                                  truncation_factor |-> None])]
                   ELSE Raise(r3, "ExtractionError")
         IN IF Raised(r1) THEN r1
            ELSE eval_models(r4, Tail(models), gene_set, a)

eval_enrichment(s, a) ==
    LET r1 == bind_gene_set(Running, a.genes, a.input_file)
        r2 == eval_models(r1, EvalModels, r1.gene_set[1], a)
        r3 == Write(Event(r2, "output.write"),
                    Written("text", "yaml", r2.results[1], None))
    IN Return(IF Raised(r1) THEN r1
              ELSE IF Raised(r2) THEN r2
              ELSE r3)

(***************************************************************************)
(* The process: `main`, then one subcommand.                               *)
(***************************************************************************)
CacheDbOptions == {None, Some(<<>>), Some(<<"cache.db">>)}

SkipAnnotatorOptions == {<<>>, <<"gilda">>}

Init ==
    /\ pc = "start"
    /\ settings = DefaultSettings
    /\ cmd = "none"
    /\ args = NoArgs
    /\ run = NoRun

Main ==
    /\ pc = "start"
    /\ \E cache_db \in CacheDbOptions, skip_annotator \in SkipAnnotatorOptions :
           settings' = main(settings, cache_db, skip_annotator)
    /\ pc' = "command"
    /\ UNCHANGED <<cmd, args, run>>

\* A subcommand ran: its arguments and what it did are recorded; no
\* subcommand assigns to `settings`.
Invoke(name, a, r) ==
    /\ pc' = "done"
    /\ cmd' = name
    /\ args' = a
    /\ run' = r
    /\ UNCHANGED settings

\* All tuples of at most n elements of S.
RECURSIVE SeqsUpTo(_, _)
SeqsUpTo(S, n) ==
    IF n = 0 THEN {<<>>}
    ELSE LET shorter == SeqsUpTo(S, n - 1)
         IN shorter \cup {Append(q, x) : q \in shorter, x \in S}

InputFiles == {None, Some(<<>>), Some(<<"in.txt">>), Some(<<"missing.txt">>)}

Inputs == {None, Some(<<>>), Some(<<"-">>), Some(<<"h", "i">>)}

SlotValues ==
    { <<"a", "=", "v">>, <<"b", "=", "w">>, <<"a", "=", "w">>,
      <<"a", "=", "v", "=", "w">>, <<"a", "v">>, <<"c", "=", "v">> }

\* The invocations of `extract` explored: every way of naming the input
\* with every collaborator outcome, and every override tuple with every
\* output format and sink.
ExtractArgs ==
    { [NoArgs EXCEPT !.inputfile = f, !.input = i, !.engine_ok = eo,
                     !.extract_ok = xo, !.dictionary = d]
        : f \in InputFiles, i \in Inputs, eo \in BOOLEAN, xo \in BOOLEAN,
          d \in {None, Some(<<"dict.tsv">>)} }
    \cup
    { [NoArgs EXCEPT !.input = Some(<<"h", "i">>), !.set_slot_value = ov,
                     !.output_format = Some(fmt), !.output = out, !.obj = o]
        : ov \in SeqsUpTo(SlotValues, MaxOverrides), fmt \in OutputFormats,
          out \in Outputs, o \in Objects }

Extract ==
    /\ pc = "command"
    /\ \E a \in ExtractArgs : Invoke("extract", a, extract(settings, a))

GeneArgs == { <<>>, << <<"g", "9">> >>, << <<"g", "9">>, <<"g", "7">> >> }

GeneFiles == {None, Some(<<>>), Some(<<"genes.txt">>), Some(<<"missing.txt">>)}

EnrichmentArgs ==
    { [NoArgs EXCEPT !.genes = g, !.input_file = f, !.interactive = i,
                     !.show_prompt = sp, !.engine_ok = eo, !.extract_ok = xo]
        : g \in GeneArgs, f \in GeneFiles, i \in BOOLEAN, sp \in BOOLEAN,
          eo \in BOOLEAN, xo \in BOOLEAN }

Enrichment ==
    /\ pc = "command"
    /\ \E a \in EnrichmentArgs :
           Invoke("enrichment", a, enrichment(settings, a))

EvalEnrichmentArgs ==
    { [NoArgs EXCEPT !.genes = g, !.input_file = f,
                     !.engine_ok = eo, !.extract_ok = xo]
        : g \in GeneArgs, f \in GeneFiles, eo \in BOOLEAN, xo \in BOOLEAN }

EvalEnrichment ==
    /\ pc = "command"
    /\ \E a \in EvalEnrichmentArgs :
           Invoke("eval_enrichment", a, eval_enrichment(settings, a))

\* Articles by the length of their text, around the cap.
Articles ==
    { <<"article", n>> : n \in {0, MaxTextLen - 1}
                                \cup (MaxTextLen .. MaxTextLen + MaxExcess) }

Keywords == { <<>>, << <<"k", "w">> >> }

\* The invocations of the search commands explored: every result list with
\* both extraction outcomes; every way of having keywords (or none) with
\* both search outcomes; every output format and sink.
SearchArgs ==
    { [NoArgs EXCEPT !.hits = h, !.keyword = << <<"k", "w">> >>,
                     !.extract_ok = xo]
        : h \in SeqsUpTo(Articles, MaxHits), xo \in BOOLEAN }
    \cup
    { [NoArgs EXCEPT !.hits = h, !.keyword = k, !.schema_keywords = sk,
                     !.fetch_ok = fo]
        : h \in SeqsUpTo(Articles, 1), k \in Keywords, sk \in Keywords,
          fo \in BOOLEAN }
    \cup
    { [NoArgs EXCEPT !.hits = h, !.keyword = << <<"k", "w">> >>,
                     !.engine_ok = eo, !.output_format = Some(fmt), !.output = out]
        : h \in SeqsUpTo(Articles, 1), eo \in BOOLEAN,
          fmt \in OutputFormats, out \in Outputs }

WikipediaSearch ==
    /\ pc = "command"
    /\ \E a \in SearchArgs :
           Invoke("wikipedia_search", a, wikipedia_search(settings, a))

SearchAndExtract ==
    /\ pc = "command"
    /\ \E a \in SearchArgs :
           Invoke("search_and_extract", a, search_and_extract(settings, a))

Documents == { <<"article", 0>>, <<"article", 3>> }

FetchArgs ==
    { [NoArgs EXCEPT !.id = d, !.fetch_ok = fo, !.engine_ok = eo,
                     !.extract_ok = xo, !.output_format = Some(fmt), !.output = out]
        : d \in Documents, fo \in BOOLEAN, eo \in BOOLEAN, xo \in BOOLEAN,
          fmt \in {"yaml", "pickle", "turtle", "owl"}, out \in Outputs }

PubmedExtract ==
    /\ pc = "command"
    /\ \E a \in FetchArgs : Invoke("pubmed_extract", a, pubmed_extract(settings, a))

WikipediaExtract ==
    /\ pc = "command"
    /\ \E a \in FetchArgs :
           Invoke("wikipedia_extract", a, wikipedia_extract(settings, a))

WebExtract ==
    /\ pc = "command"
    /\ \E a \in FetchArgs : Invoke("web_extract", a, web_extract(settings, a))

RecipeUrls == { <<"u", "1">>, <<"u">>, <<"2">>, <<"q">> }

RecipeArgs ==
    { [NoArgs EXCEPT !.url = u, !.recipes_urls_file = f, !.fetch_ok = fo,
                     !.engine_ok = eo, !.extract_ok = xo, !.dictionary = d]
        : u \in RecipeUrls,
          f \in {None, Some(<<"urls.txt">>), Some(<<"missing.txt">>)},
          fo \in BOOLEAN, eo \in BOOLEAN, xo \in BOOLEAN,
          d \in {None, Some(<<"dict.tsv">>)} }
    \cup
    { [NoArgs EXCEPT !.url = <<"u", "1">>, !.output_format = Some(fmt),
                     !.output = out]
        : fmt \in OutputFormats, out \in Outputs }

RecipeExtract ==
    /\ pc = "command"
    /\ \E a \in RecipeArgs : Invoke("recipe_extract", a, recipe_extract(settings, a))

ConvertArgs ==
    { [NoArgs EXCEPT !.inputfile = f, !.engine_ok = eo,
                     !.output_format = Some(fmt), !.output = out, !.obj = o]
        : f \in {Some(<<"in.txt">>), Some(<<"missing.txt">>)}, eo \in BOOLEAN,
          fmt \in OutputFormats, out \in Outputs, o \in Objects }

Convert ==
    /\ pc = "command"
    /\ \E a \in ConvertArgs : Invoke("convert", a, convert(settings, a))

FillArgs ==
    { [NoArgs EXCEPT !.examples = e, !.engine_ok = eo, !.extract_ok = xo,
                     !.output = out, !.obj = o]
        : e \in {None, Some(<<"examples.yaml">>)}, eo \in BOOLEAN,
          xo \in BOOLEAN, out \in Outputs, o \in Objects }

Fill ==
    /\ pc = "command"
    /\ \E a \in FillArgs : Invoke("fill", a, fill(settings, a))

ParseArgs ==
    { [NoArgs EXCEPT !.inputfile = f, !.engine_ok = eo, !.extract_ok = xo,
                     !.obj = o]
        : f \in {None, Some(<<"in.txt">>)}, eo \in BOOLEAN, xo \in BOOLEAN,
          o \in Objects }

Parse ==
    /\ pc = "command"
    /\ \E a \in ParseArgs : Invoke("parse", a, parse(settings, a))

Next ==
    \/ Main
    \/ Extract
    \/ PubmedExtract
    \/ WikipediaExtract
    \/ WikipediaSearch
    \/ SearchAndExtract
    \/ WebExtract
    \/ RecipeExtract
    \/ Convert
    \/ Fill
    \/ Parse
    \/ Enrichment
    \/ EvalEnrichment

Spec == Init /\ [][Next]_vars

(***************************************************************************)
(* write_extraction called on its own: any result, sink, format name and   *)
(* engine.                                                                 *)
(***************************************************************************)
FormatNames ==
    {None, Some(""), Some("xml"), Some("YAML")} \cup {Some(f) : f \in OutputFormats}

ResultValues ==
    {ExtractionResult(o) : o \in Objects}
    \cup {[ExtractionResult(o) EXCEPT !.prompt = None] : o \in Objects}

EngineValues == {None, Some(NewEngine("SPIRESEngine", <<"T">>))}

WriteExtraction ==
    /\ pc = "start"
    /\ \E results \in ResultValues, output \in Outputs,
          output_format \in FormatNames, knowledge_engine \in EngineValues :
           /\ args' = [NoArgs EXCEPT !.output = output,
                                     !.output_format = output_format]
           /\ run' = Return(write_extraction(
                         [Running EXCEPT !.results = Some(results),
                                         !.ke = knowledge_engine],
                         results, output, output_format, knowledge_engine))
    /\ cmd' = "write_extraction"
    /\ pc' = "done"
    /\ UNCHANGED settings

NextWrite == WriteExtraction

SpecWrite == Init /\ [][NextWrite]_vars

(***************************************************************************)
(* Properties.                                                             *)
(***************************************************************************)
Has(s, e) == \E i \in 1..Len(s) : s[i] = e

Count(s, e) == Cardinality({i \in 1..Len(s) : s[i] = e})

Done(name) == pc = "done" /\ cmd = name

Extracting == Has(run.events, "extract_from_text")

\* C1: in `extract`, a positional input of "-" with no --inputfile makes
\* the text passed to extraction the content of standard input, not "-".
C1_DashReadsStdin ==
    (Done("extract") /\ args.inputfile = None /\ args.input = Some(<<"-">>)
        /\ Extracting)
    => run.text = Some(Stdin)

\* C2: in `extract`, with --inputfile absent or naming an existing file and
\* the positional input absent or a non-empty string other than "-", the
\* text passed to extraction is the file's content if the file is given,
\* else the positional string verbatim if given, else standard input; the
\* text is never unbound, and extraction is reached once the engine exists.
C2_InputPrecedence ==
    (Done("extract")
        /\ (args.inputfile = None
              \/ (Truthy(args.inputfile) /\ args.inputfile[1] \in DOMAIN FileSystem))
        /\ (args.input = None
              \/ (Truthy(args.input) /\ args.input # Some(<<"-">>))))
    => /\ run.outcome # "UnboundLocalError"
       /\ args.engine_ok => Extracting
       /\ Extracting =>
             run.text = Some(IF args.inputfile # None
                             THEN FileSystem[args.inputfile[1]]
                             ELSE IF args.input # None THEN args.input[1]
                             ELSE Stdin)

C2_Witness ==
    /\ Done("extract")
    /\ args.inputfile = Some(<<"in.txt">>)
    /\ args.input = Some(<<"h", "i">>)
    /\ run.text = Some(<<"f", "i", "l", "e">>)
    /\ run.outcome = "ok"

\* C3: in `extract`, when --inputfile names a path that does not exist the
\* command fails, extraction is never invoked and nothing is written, with
\* or without a positional input; the failure is FileNotFoundError whenever
\* the engine constructor (which runs first) has returned.
C3_MissingFileFails ==
    (Done("extract") /\ Truthy(args.inputfile)
        /\ args.inputfile[1] \notin DOMAIN FileSystem)
    => /\ Raised(run)
       /\ ~Extracting
       /\ run.text = None
       /\ run.sink = <<>>
       /\ ~Has(run.events, "write_extraction")
       /\ args.engine_ok => run.outcome = "FileNotFoundError"

C3_Witness ==
    /\ Done("extract")
    /\ args.inputfile = Some(<<"missing.txt">>)
    /\ args.input = Some(<<"h", "i">>)
    /\ run.outcome = "FileNotFoundError"
    /\ run.ke # None

GeneSetCommand == pc = "done" /\ cmd \in {"enrichment", "eval_enrichment"}

SearchCommand == pc = "done" /\ cmd \in {"wikipedia_search", "search_and_extract"}

\* The text fetched for the first search result.
FirstHitText == [i \in 1..args.hits[1][2] |-> Alphabet[(i % 3) + 1]]

\* The text passed to extraction is the fetched text cut to `cap` characters.
PassedCutTo(cap) ==
    LET passed == run.text[1]
    IN /\ Len(passed) = IF Len(FirstHitText) > cap THEN cap ELSE Len(FirstHitText)
       /\ \A i \in 1..Len(passed) : passed[i] = FirstHitText[i]

C6_EmptySearchFails ==
    SearchCommand =>
        /\ (Has(run.events, "search") /\ args.fetch_ok /\ args.hits = <<>>)
             => Raised(run)
        /\ run.outcome = "ok" => Extracting

\* C7: for every result, sink and engine, a format name that is omitted,
\* "json", or none of pickle, md, html, yaml, turtle, owl makes
\* write_extraction write exactly what an explicit "yaml" writes: one
\* minimal YAML dump of the result, through the text writer.
C7_FallbackIsYaml ==
    (Done("write_extraction")
        /\ (args.output_format \in {None, Some("json"), Some("yaml")}
              \/ args.output_format[1] \notin
                    {"pickle", "md", "html", "yaml", "turtle", "owl"}))
    => /\ run.outcome = "ok"
       /\ run.sink =
            << [writer |-> IF args.output = "sys.stdout" THEN "text" ELSE "utf-8",
                render |-> "yaml", results |-> run.results[1],
                schemaview |-> None] >>

C7_Witness ==
    /\ Done("write_extraction")
    /\ args.output_format = Some("xml")
    /\ args.output = "file.wb"
    /\ Len(run.sink) = 1
    /\ run.sink[1].render = "yaml"
    /\ run.sink[1].writer = "utf-8"

\* Where the first "=" of an override is (0: there is none).
FirstEq(s) ==
    IF \E i \in 1..Len(s) : s[i] = "="
    THEN CHOOSE i \in 1..Len(s) : s[i] = "=" /\ \A j \in 1..(i - 1) : s[j] # "="
    ELSE 0

CountEq(s) == Cardinality({i \in 1..Len(s) : s[i] = "="})

FieldOf(s) == SubSeq(s, 1, FirstEq(s) - 1)

RemainderOf(s) == SubSeq(s, FirstEq(s) + 1, Len(s))

\* The last override of the tuple that names field f.
LastNaming(ovs, f) ==
    ovs[CHOOSE i \in 1..Len(ovs) :
            /\ FieldOf(ovs[i]) = f
            /\ \A j \in (i + 1)..Len(ovs) : FieldOf(ovs[j]) # f]

\* The extracted object differs from the one the engine returned exactly in
\* the fields the overrides name, each holding the remainder of the last
\* override that names it; the rest of the result is as returned.
OverridesApplied ==
    LET before == run.extracted[1]
        after == run.results[1]
        ovs == args.set_slot_value
        named == {FieldOf(ovs[i]) : i \in 1..Len(ovs)}
    IN /\ after.prompt = before.prompt
       /\ after.truncation_factor = before.truncation_factor
       /\ DOMAIN after.extracted_object = DOMAIN before.extracted_object \cup named
       /\ \A f \in DOMAIN before.extracted_object \ named :
              after.extracted_object[f] = before.extracted_object[f]
       /\ \A f \in named :
              after.extracted_object[f] = RemainderOf(LastNaming(ovs, f))

\* `extract` got overrides and its extraction returned.
Overriding ==
    /\ Done("extract")
    /\ run.extracted # None
    /\ args.set_slot_value # <<>>

\* C8: an override is split on its first "=" only: with overrides f=v whose
\* v may itself contain "=", field f gets the whole remainder v and the
\* command goes on to write its output.
C8_SplitOnFirstEquals ==
    (Overriding
        /\ \A i \in 1..Len(args.set_slot_value) : CountEq(args.set_slot_value[i]) >= 1)
    => /\ run.outcome # "ValueError"
       /\ OverridesApplied
       /\ Has(run.events, "write_extraction")

\* C9: after a successful extraction in `extract`, well-formed overrides
\* field=value (one "=" each) change exactly the named fields of the
\* extracted object, each to the string of the last override naming it,
\* and leave every other field of the object and of the ExtractionResult
\* as the engine returned it; the result so changed is what is written.
C9_OverrideFrame ==
    (Overriding
        /\ \A i \in 1..Len(args.set_slot_value) : CountEq(args.set_slot_value[i]) = 1)
    => /\ run.outcome # "ValueError"
       /\ OverridesApplied
       /\ Has(run.events, "write_extraction")
       /\ run.outcome = "ok" =>
             /\ Len(run.sink) = 1
             /\ run.sink[1].results = run.results[1]

C9_Witness ==
    /\ Done("extract")
    /\ args.set_slot_value = << <<"a", "=", "v">>, <<"a", "=", "w">> >>
    /\ run.outcome = "ok"
    /\ run.extracted[1].extracted_object[<<"a">>] = <<"x">>
    /\ run.results[1].extracted_object[<<"a">>] = <<"w">>
    /\ run.results[1].extracted_object[<<"b">>] = <<"y">>

\* The commands that construct an extraction engine.
EngineCommands ==
    {"extract", "pubmed_extract", "wikipedia_extract", "wikipedia_search",
     "search_and_extract", "web_extract", "recipe_extract", "convert", "fill",
     "parse", "enrichment"}

\* C10: every command that constructs an extraction engine applies the
\* Settings to it: a --cache-db and a --skip-annotator given to `main` are
\* the cache_db_path and the skip_annotators of the engine's client.
C10_SettingsReachEveryEngine ==
    (pc = "done" /\ cmd \in EngineCommands /\ run.ke # None)
    => /\ Truthy(settings.cache_db)
            => run.ke[1].client.cache_db_path = settings.cache_db
       /\ Truthy(settings.skip_annotators)
            => run.ke[1].client.skip_annotators = settings.skip_annotators

\* The commands that fetch or read a text and run an extraction on it.
ExtractionCommands ==
    {"extract", "pubmed_extract", "wikipedia_extract", "wikipedia_search",
     "search_and_extract", "web_extract", "recipe_extract"}

ExtractionCommand == pc = "done" /\ cmd \in ExtractionCommands

\* C11: in every extraction command, an invocation that ends in an error
\* (of input acquisition, engine construction, extraction or an override)
\* has written nothing to the output sink, and nothing to standard output
\* when standard output is the sink.
C11_NoOutputOnFailure ==
    (ExtractionCommand /\ Raised(run))
    => /\ run.sink = <<>>
       /\ args.output = "sys.stdout" => run.printed = <<>>

\* The extraction commands that hand their engine to write_extraction.
EnginePassedBy == {"extract", "wikipedia_extract", "recipe_extract"}

\* write_extraction wrote once, as `render`, with the schema view of the
\* command's own engine.
RenderedWithOwnSchemaView(render) ==
    /\ run.outcome = "ok"
    /\ run.ke # None
    /\ run.sink =
         << [writer |-> IF args.output = "sys.stdout" THEN "text" ELSE "utf-8",
             render |-> render, results |-> run.results[1],
             schemaview |-> Some(run.ke[1].schemaview)] >>

\* C12: an extraction command that reaches write_extraction with format
\* turtle or owl either writes that rendering once, made with the schema
\* view of the engine that produced the result, or fails with nothing
\* written to the sink; it fails (AttributeError) exactly when the command
\* hands write_extraction no engine.
C12_SchemaViewOrFail ==
    (ExtractionCommand /\ args.output_format \in {Some("turtle"), Some("owl")}
        /\ Has(run.events, "write_extraction"))
    => /\ \/ RenderedWithOwnSchemaView(args.output_format[1])
          \/ Raised(run) /\ run.sink = <<>>
       /\ cmd \in EnginePassedBy => run.outcome = "ok"
       /\ cmd \notin EnginePassedBy => run.outcome = "AttributeError"

C12_Witness ==
    /\ Done("pubmed_extract")
    /\ args.output_format = Some("turtle")
    /\ run.ke # None
    /\ run.extracted # None
    /\ Has(run.events, "write_extraction")
    /\ run.outcome = "AttributeError"
    /\ run.sink = <<>>

\* How many times a text was acquired from its source.
Acquisitions == Count(run.events, "acquire_text") + Count(run.events, "fetch_text")

\* C13: in every extraction command no invocation acquires a text, invokes
\* the extraction or calls write_extraction more than once, and an
\* invocation that ends successfully has done each exactly once.
C13_ExactlyOnce ==
    ExtractionCommand =>
        /\ Acquisitions <= 1
        /\ Count(run.events, "extract_from_text") <= 1
        /\ Count(run.events, "write_extraction") <= 1
        /\ run.outcome = "ok" =>
              /\ Acquisitions = 1
              /\ Count(run.events, "extract_from_text") = 1
              /\ Count(run.events, "write_extraction") = 1

\* The text handed to extraction is the one of the recipe scraped at u,
\* and u is the url of the object written.
ScrapedAt(u) ==
    /\ Has(run.events, "scrape_me")
    /\ run.text # None => run.text = Some(recipe_text(scrape_me(u)))
    /\ run.outcome = "ok" =>
          /\ run.results[1].extracted_object[<<"url">>] = u
          /\ Len(run.sink) = 1
          /\ run.sink[1].results.extracted_object[<<"url">>] = u

\* C14: in `recipe_extract`, with a (readable) candidates file the URL
\* scraped is the one line of the file that contains the URL argument,
\* stripped of surrounding whitespace; with no line or several lines
\* containing it the command fails with ValueError before anything is
\* scraped, any engine constructed or any extraction invoked.  With no
\* candidates file the URL argument is scraped unchanged.
C14_UniqueMatch ==
    Done("recipe_extract") =>
        /\ (Truthy(args.recipes_urls_file)
              /\ args.recipes_urls_file[1] \in DOMAIN RecipeFiles) =>
             LET lines == RecipeFiles[args.recipes_urls_file[1]]
                 hits == {i \in 1..Len(lines) : contains(lines[i], args.url)}
             IN /\ Cardinality(hits) # 1 =>
                     /\ run.outcome = "ValueError"
                     /\ run.events = <<"resolve_url">>
                     /\ run.ke = None
                     /\ run.text = None
                     /\ run.sink = <<>>
                /\ Cardinality(hits) = 1 =>
                     /\ run.outcome # "ValueError"
                     /\ ScrapedAt(strip(lines[CHOOSE i \in hits : TRUE]))
        /\ args.recipes_urls_file = None => ScrapedAt(args.url)

C14_Witness ==
    /\ Done("recipe_extract")
    /\ args.recipes_urls_file = Some(<<"urls.txt">>)
    /\ args.url = <<"2">>
    /\ run.outcome = "ok"
    /\ run.results[1].extracted_object[<<"url">>] = <<"u", "2">>

\* The stages of the run, print() calls left out.
Stages == SelectSeq(run.events, LAMBDA e : e # "print")

\* The pipeline stage of an event, as the stages are numbered by the
\* control flow: engine, input acquisition, extraction, post-processing,
\* output.
StageOf(e) ==
    CASE e = "construct_engine" -> 1
      [] e \in {"resolve_url", "scrape_me", "search", "fetch_text", "acquire_text"} -> 2
      [] e = "extract_from_text" -> 3
      [] e = "set_slot_value" -> 4
      [] e = "write_extraction" -> 5

\* C15 as stated: in every extraction command the stages run in the order
\* engine construction, input acquisition, extraction, post-processing,
\* output write; the engine exists before any input is acquired.
C15_EngineBeforeInput ==
    ExtractionCommand =>
        /\ \A i, j \in 1..Len(Stages) :
              i < j => StageOf(Stages[i]) <= StageOf(Stages[j])
        /\ Stages # <<>> => Stages[1] = "construct_engine"

IsPrefix(p, q) == Len(p) <= Len(q) /\ SubSeq(q, 1, Len(p)) = p

\* The stages of each extraction command, in the order it runs them.
Pipeline ==
    CASE cmd = "extract" ->
           <<"construct_engine", "acquire_text", "extract_from_text">>
           \o (IF args.set_slot_value # <<>> THEN <<"set_slot_value">> ELSE <<>>)
           \o <<"write_extraction">>
      [] cmd \in {"wikipedia_search", "search_and_extract"} ->
           <<"construct_engine", "search", "fetch_text", "extract_from_text",
             "write_extraction">>
      [] cmd \in {"pubmed_extract", "wikipedia_extract", "web_extract"} ->
           <<"fetch_text", "construct_engine", "extract_from_text",
             "write_extraction">>
      [] cmd = "recipe_extract" ->
           (IF Truthy(args.recipes_urls_file) THEN <<"resolve_url">> ELSE <<>>)
           \o <<"scrape_me", "construct_engine", "acquire_text",
                "extract_from_text", "write_extraction">>

\* C15 as amended: in every extraction command the stages run one after
\* the other and a run stops at the stage that fails; extraction comes
\* after both the engine and the text exist, post-processing after it and
\* the output write last.  `extract`, `wikipedia_search` and
\* `search_and_extract` construct the engine before acquiring any input;
\* `pubmed_extract`, `wikipedia_extract` and `web_extract` fetch the text,
\* and `recipe_extract` resolves and scrapes the URL, before the engine is
\* constructed.  `extract` and `recipe_extract` apply the Settings to the
\* engine as soon as it is constructed, before the next stage.
C15_StagesAsCoded ==
    ExtractionCommand =>
        /\ IsPrefix(Stages, Pipeline)
        /\ (run.outcome = "ok" /\ Extracting) => Stages = Pipeline
        /\ Extracting => run.ke # None /\ run.text # None
        /\ (cmd \in {"extract", "recipe_extract"} /\ run.ke # None) =>
             /\ Truthy(settings.cache_db) =>
                   run.ke[1].client.cache_db_path = settings.cache_db
             /\ Truthy(settings.skip_annotators) =>
                   run.ke[1].client.skip_annotators = settings.skip_annotators

C15_Witness ==
    /\ Done("pubmed_extract")
    /\ run.outcome = "EngineError"
    /\ run.events = <<"fetch_text", "construct_engine">>
    /\ run.ke = None

\* The values a Settings object may hold before `main` runs.
SettingsValues ==
    [cache_db : {None, Some(<<"old.db">>)},
     skip_annotators : {None, Some(<<"old">>)}]

\* `main` on any Settings and options: a field is the option when the
\* option is non-empty, and its previous value otherwise.
MainWritesOnlyGivenOptions ==
    \A s \in SettingsValues, c \in CacheDbOptions, k \in SkipAnnotatorOptions :
        main(s, c, k) =
            [cache_db |-> IF c # None /\ c # Some(<<>>) THEN c ELSE s.cache_db,
             skip_annotators |-> IF k # <<>> THEN Some(k) ELSE s.skip_annotators]

\* A Settings field is absent or holds a non-empty option given to `main`.
SettingsAsGiven ==
    /\ pc = "start" => settings = DefaultSettings
    /\ settings.cache_db \in CacheDbOptions \ {Some(<<>>)}
    /\ settings.skip_annotators \in
          {None} \cup {Some(k) : k \in SkipAnnotatorOptions \ {<<>>}}

\* An engine built under an absent Settings field keeps its own default.
AbsentSettingsKeepDefaults ==
    (pc = "done" /\ run.ke # None) =>
        /\ settings.cache_db = None =>
              run.ke[1].client.cache_db_path = EngineDefaultCache
        /\ settings.skip_annotators = None =>
              run.ke[1].client.skip_annotators = EngineDefaultSkip

\* C16: only `main` writes the Settings: it sets cache_db only for a
\* non-empty --cache-db and skip_annotators only for at least one
\* --skip-annotator, leaving a field whose option is absent at its previous
\* value; no step after `main` (no subcommand) changes a Settings field;
\* and an engine built while a Settings field is absent keeps its own
\* default for the corresponding client attribute.
C16_SettingsFrame ==
    /\ [](MainWritesOnlyGivenOptions /\ SettingsAsGiven /\ AbsentSettingsKeepDefaults)
    /\ [][pc # "start" => settings' = settings]_vars

C16_Witness ==
    /\ Done("extract")
    /\ settings = [cache_db |-> Some(<<"cache.db">>), skip_annotators |-> None]
    /\ run.ke # None
    /\ run.ke[1].client.cache_db_path = Some(<<"cache.db">>)
    /\ run.ke[1].client.skip_annotators = EngineDefaultSkip

====
